---- MODULE Spec2Model ----
\* Anatomical-data availability resolution and anatomical workflow assembly
\* of qsirecon (workflows/recon/anatomical.py), the DRBUDDI workflow of qsiprep
\* (workflows/fieldmap/drbuddi.py) and the output check of the tests (tests/utils.py).
EXTENDS FiniteSets, Integers, Sequences, TLC

\* ---------------------------------------------------------------- bounds
\* number of atlas names a caller can ask for
MaxAtlases == 2
\* number of HSV requirement files that may be absent from a FreeSurfer dir
MaxMissingHsv == 1
\* number of fields one call of _exchange_fields may claim in the router specification
MaxClaim == 2
\* number of lines of an output list file
MaxListed == 2

\* ------------------------------------------------------- static requirement lists
\* A path is a sequence of tokens; the tokens are cut where the code cuts or
\* rewrites a path ("_T1w" -> "_T2w", the trailing ".gz").
HSV_REQUIREMENTS ==
    << "mri/aparc+aseg.mgz", "mri/brainmask.mgz", "mri/norm.mgz",
       "mri/transforms/talairach.xfm", "surf/lh.white", "surf/lh.pial",
       "surf/rh.white", "surf/rh.pial" >>

UKB_REQUIREMENTS == << <<"T1/T1_brain", ".nii", ".gz">>, <<"T1/T1_brain_mask", ".nii", ".gz">> >>

HCP_REQUIREMENTS ==
    << <<"T1w/T1w_acpc_dc_restore_brain", ".nii", ".gz">>, <<"T1w/brainmask_fs", ".nii", ".gz">> >>

QSIRECON_ANAT_REQUIREMENTS ==
    << <<"sub-{subject_id}/anat/sub-{subject_id}", "_desc-brain", "_mask", ".nii", ".gz">>,
       <<"sub-{subject_id}/anat/sub-{subject_id}", "_desc-preproc", "_T1w", ".nii", ".gz">> >>

QSIRECON_NORMALIZED_ANAT_REQUIREMENTS ==
    << <<"sub-{subject_id}/anat/sub-{subject_id}", "_from-T1w", "_to-MNI152NLin2009cAsym",
         "_mode-image", "_xfm", ".h5">>,
       <<"sub-{subject_id}/anat/sub-{subject_id}", "_from-MNI152NLin2009cAsym", "_to-T1w",
         "_mode-image", "_xfm", ".h5">> >>

Range(s) == {s[i] : i \in DOMAIN s}

\* ------------------------------------------------------------ path helpers
\* requirement.format(subject_id=subject_id)
format(requirement, subject_id) ==
    [i \in DOMAIN requirement |->
        IF requirement[i] = "sub-{subject_id}/anat/sub-{subject_id}"
        THEN "sub-" \o subject_id \o "/anat/sub-" \o subject_id
        ELSE requirement[i]]

\* requirement.replace("_T1w", "_T2w")
replace_T1w_T2w(requirement) ==
    [i \in DOMAIN requirement |-> IF requirement[i] = "_T1w" THEN "_T2w" ELSE requirement[i]]

\* path_to_check.name.endswith(".gz")
endswith_gz(path) == Len(path) > 0 /\ path[Len(path)] = ".gz"

\* str(path_to_check)[:-3]
strip3(path) == SubSeq(path, 1, Len(path) - 1)

\* _check_zipped_unzipped with only the non-gzipped probe
_check_zipped_unzipped_only_unzipped(dir, path_to_check) ==
    endswith_gz(path_to_check) /\ strip3(path_to_check) \in dir

\* A path exists, or it ends in .gz and its non-gzipped twin exists.
_check_zipped_unzipped(dir, path_to_check) ==
    \/ path_to_check \in dir
    \/ endswith_gz(path_to_check) /\ strip3(path_to_check) \in dir

RECURSIVE qsiprep_missing_from(_, _, _, _)
qsiprep_missing_from(dir, subject_id, to_check, i) ==
    IF i > Len(to_check) THEN << >>
    ELSE LET requirement == format(to_check[i], subject_id)
             t1_version == requirement
             t2w_version == replace_T1w_T2w(requirement)
             rest == qsiprep_missing_from(dir, subject_id, to_check, i + 1)
         IN  IF _check_zipped_unzipped(dir, t1_version) THEN rest
             ELSE IF _check_zipped_unzipped(dir, t2w_version) THEN rest
             ELSE <<t1_version>> \o rest

\* check_qsiprep_anatomical_outputs that never looks for a T2w version
check_qsiprep_anatomical_outputs_no_t2w(recon_input_dir, subject_id, anat_type) ==
    LET to_check == IF anat_type = "T1w" THEN QSIRECON_ANAT_REQUIREMENTS
                    ELSE QSIRECON_NORMALIZED_ANAT_REQUIREMENTS
    IN  SelectSeq([i \in DOMAIN to_check |-> format(to_check[i], subject_id)],
                  LAMBDA p : ~_check_zipped_unzipped(recon_input_dir, p))

check_qsiprep_anatomical_outputs(recon_input_dir, subject_id, anat_type) ==
    LET to_check == IF anat_type = "T1w" THEN QSIRECON_ANAT_REQUIREMENTS
                    ELSE QSIRECON_NORMALIZED_ANAT_REQUIREMENTS
    IN  qsiprep_missing_from(recon_input_dir, subject_id, to_check, 1)

\* check_ukb_anatomical_outputs probing the way the QSIPrep check does
check_ukb_anatomical_outputs_unzipped_ok(recon_input_dir) ==
    SelectSeq(UKB_REQUIREMENTS, LAMBDA r : ~_check_zipped_unzipped(recon_input_dir, r))

check_ukb_anatomical_outputs(recon_input_dir) ==
    SelectSeq(UKB_REQUIREMENTS, LAMBDA r : r \notin recon_input_dir)

check_hcp_anatomical_outputs(recon_input_dir) ==
    SelectSeq(HCP_REQUIREMENTS, LAMBDA r : r \notin recon_input_dir)

check_hsv_inputs(subj_fs_files) ==
    SelectSeq(HSV_REQUIREMENTS, LAMBDA r : r \notin subj_fs_files)

\* ------------------------------------------------------------- gather functions
BaseStatus ==
    [has_qsiprep_5tt_hsvs |-> FALSE, has_freesurfer_5tt_hsvs |-> FALSE, has_freesurfer |-> FALSE]

gather_qsiprep_anatomical_data(recon_input_dir, subject_id) ==
    LET missing_qsiprep_anats ==
            check_qsiprep_anatomical_outputs(recon_input_dir, subject_id, "T1w")
        missing_qsiprep_transforms ==
            check_qsiprep_anatomical_outputs(recon_input_dir, subject_id, "transforms")
    IN  [node |-> "qsiprep_anat_ingress",
         missing |-> missing_qsiprep_anats,
         status |-> ("has_qsiprep_t1w_transforms" :> (missing_qsiprep_transforms = << >>))
                    @@ ("has_qsiprep_t1w" :> (missing_qsiprep_anats = << >>))
                    @@ BaseStatus]

\* gather_ukb_anatomical_data reporting transforms whenever the anatomical files exist
gather_ukb_anatomical_data_with_transforms(recon_input_dir, subject_id) ==
    LET missing_ukb_anats == check_ukb_anatomical_outputs(recon_input_dir)
    IN  [node |-> "ukb_anat_ingress",
         missing |-> missing_ukb_anats,
         status |-> ("has_qsiprep_t1w_transforms" :> (missing_ukb_anats = << >>))
                    @@ ("has_qsiprep_t1w" :> (missing_ukb_anats = << >>))
                    @@ BaseStatus]

gather_ukb_anatomical_data(recon_input_dir, subject_id) ==
    LET missing_ukb_anats == check_ukb_anatomical_outputs(recon_input_dir)
    IN  [node |-> "ukb_anat_ingress",
         missing |-> missing_ukb_anats,
         status |-> ("has_qsiprep_t1w_transforms" :> FALSE)
                    @@ ("has_qsiprep_t1w" :> (missing_ukb_anats = << >>))
                    @@ BaseStatus]

gather_hcp_anatomical_data(recon_input_dir, subject_id) ==
    LET missing_hcp_anats == check_hcp_anatomical_outputs(recon_input_dir)
    IN  [node |-> "hcp_anat_ingress",
         missing |-> missing_hcp_anats,
         status |-> ("has_qsiprep_t1w_transforms" :> FALSE)
                    @@ ("has_qsiprep_t1w" :> (missing_hcp_anats = << >>))
                    @@ BaseStatus]

\* ------------------------------------------------------------ interchange fields
FS_FILES_TO_REGISTER == {"brain", "aseg"}

\* output fields of the anatomical ingress node
qsiprep_highres_anatomical_ingressed_fields ==
    {"t1_preproc", "t1_brain_mask", "t1_2_mni_forward_transform", "t1_2_mni_reverse_transform"}

anatomical_workflow_outputs ==
    qsiprep_highres_anatomical_ingressed_fields \cup FS_FILES_TO_REGISTER
    \cup {"fs_5tt_hsvs", "qsiprep_5tt_hsvs",
          "fs_to_qsiprep_transform_itk", "fs_to_qsiprep_transform_mrtrix"}

\* QSIPrepDWIIngressOutputSpec
qsiprep_output_names ==
    {"subject_id", "session_id", "space_id", "acq_id", "rec_id", "run_id", "dir_id",
     "bval_file", "bvec_file", "b_file", "btable_file", "confounds_file", "dwi_file",
     "local_bvec_file", "mask_file", "dwi_ref", "qc_file", "slice_qc_file"}

recon_workflow_input_fields ==
    qsiprep_output_names \cup anatomical_workflow_outputs
    \cup {"dwi_mask", "atlas_configs", "odf_rois", "resampling_template"}

\* ------------------------------------------------------------------ graph helpers
\* one connection of workflow.connect
E(src, srcfield, dst, dstfield) ==
    [src |-> src, srcfield |-> srcfield, dst |-> dst, dstfield |-> dstfield]
\* (src, dst, [(name, name) for name in fields])
Same(src, dst, fields) == {E(src, f, dst, f) : f \in fields}
\* workflow.list_node_names(): the nodes some connection has put in the graph
list_node_names(es) == {e.src : e \in es} \cup {e.dst : e \in es}

\* ------------------------------------------------------------------- input domains
AtlasLibrary == <<"schaefer100", "aal116", "brainnetome246", "power264">>
AtlasChoices == SUBSET {AtlasLibrary[i] : i \in 1..MaxAtlases}
ExtrasChoices == SUBSET {"mrtrix_5tt_hsvs"}
SubjectId == "01"
PipelineSources == {"qsiprep", "ukb", "hcpya", "other"}

\* the files a recon input directory of each pipeline can hold
QsiprepUniverse ==
    LET reqs == {format(r, SubjectId) : r \in Range(QSIRECON_ANAT_REQUIREMENTS)}
        t2s == {replace_T1w_T2w(r) : r \in reqs}
    IN  reqs \cup t2s \cup {strip3(r) : r \in reqs \cup t2s}
        \cup {format(r, SubjectId) : r \in Range(QSIRECON_NORMALIZED_ANAT_REQUIREMENTS)}

InputDirs(source) ==
    CASE source = "qsiprep" -> SUBSET QsiprepUniverse
      [] source = "ukb" ->
            SUBSET (Range(UKB_REQUIREMENTS) \cup {strip3(r) : r \in Range(UKB_REQUIREMENTS)})
      [] source = "hcpya" ->
            SUBSET (Range(HCP_REQUIREMENTS) \cup {strip3(r) : r \in Range(HCP_REQUIREMENTS)})
      [] OTHER -> {{}}

\* the FreeSurfer input: no directory for the subject, or a directory with files
FreesurferInputs ==
    {[found |-> FALSE, files |-> {}]}
    \cup {[found |-> TRUE, files |-> Range(HSV_REQUIREMENTS) \ m] :
            m \in {x \in SUBSET Range(HSV_REQUIREMENTS) : Cardinality(x) <= MaxMissingHsv}}

\* find_fs_path(freesurfer_dir, subject_id)
find_fs_path(freesurfer_input, subject_id) ==
    IF freesurfer_input.found THEN "sub-" \o subject_id ELSE "None"

NoStatus == [k \in {} |-> FALSE]

\* ---------------------------------------------------------------------- state
VARIABLES
    \* init_highres_recon_anatomical_wf
    hpc, pipeline_source, recon_input_dir, freesurfer_input, subject_freesurfer_path,
    status, anat_ingress_node, missing_anats, hnodes, hadded, hedges, hresult, herror,
    \* parameters shared by the two workflow builders
    extras_to_make, needs_t1w_transform,
    \* init_dwi_recon_anatomical_workflow
    pc, chained, atlas_names, prefer_dwi_mask, has_qsiprep_5tt_hsvs, has_freesurfer_5tt_hsvs,
    has_qsiprep_t1w, has_qsiprep_t1w_transforms, has_freesurfer,
    connect_from_inputnode, connect_from_buffernode, nodes, edges,
    result, error, returned_status,
    \* the has_qsiprep_t1w argument as the caller passed it
    has_qsiprep_t1w_arg,
    \* the fields argument of the latest _exchange_fields call
    claimed,
    \* the inputs the interfaces of resample_mask and odf_rois are built with
    node_inputs,
    \* init_drbuddi_wf
    bpc, fieldmap_info, bnodes, binputs, epi_fmaps, bedges, bresult, berror,
    \* check_generated_files
    gpc, output_dir, output_list_file, optional_output_list_file,
    found_files, expected_files, optional_files, gresult, msg

hvars == <<hpc, pipeline_source, recon_input_dir, freesurfer_input, subject_freesurfer_path,
           status, anat_ingress_node, missing_anats, hnodes, hadded, hedges, hresult, herror>>
pvars == <<extras_to_make, needs_t1w_transform>>
flags == <<atlas_names, prefer_dwi_mask, has_qsiprep_5tt_hsvs, has_freesurfer_5tt_hsvs,
           has_qsiprep_t1w_transforms, has_freesurfer, chained, has_qsiprep_t1w_arg>>
router == <<connect_from_inputnode, connect_from_buffernode, claimed>>
outcome == <<result, error, returned_status>>
dvars == <<pc, flags, has_qsiprep_t1w, router, nodes, node_inputs, edges, outcome>>
bvars == <<bpc, fieldmap_info, bnodes, binputs, epi_fmaps, bedges, bresult, berror>>
gvars == <<gpc, output_dir, output_list_file, optional_output_list_file,
           found_files, expected_files, optional_files, gresult, msg>>
xvars == <<bvars, gvars>>
vars == <<hvars, pvars, dvars, xvars>>

HInit ==
    /\ hpc = "idle" /\ pipeline_source = "" /\ recon_input_dir = {}
    /\ freesurfer_input = [found |-> FALSE, files |-> {}]
    /\ subject_freesurfer_path = "unset" /\ status = NoStatus /\ anat_ingress_node = ""
    /\ missing_anats = << >> /\ hnodes = {} /\ hadded = {} /\ hedges = {}
    /\ hresult = "none" /\ herror = ""

DInit ==
    /\ pc = "idle" /\ chained = FALSE /\ atlas_names = {} /\ prefer_dwi_mask = FALSE
    /\ has_qsiprep_5tt_hsvs = FALSE /\ has_freesurfer_5tt_hsvs = FALSE
    /\ has_qsiprep_t1w = FALSE /\ has_qsiprep_t1w_transforms = FALSE /\ has_freesurfer = FALSE
    /\ has_qsiprep_t1w_arg = FALSE
    /\ connect_from_inputnode = {} /\ connect_from_buffernode = {} /\ claimed = {}
    /\ nodes = {} /\ node_inputs = {} /\ edges = {}
    /\ result = "none" /\ error = "" /\ returned_status = NoStatus

\* init_drbuddi_wf not called yet
BInit ==
    /\ bpc = "idle" /\ fieldmap_info = [suffix |-> "", images |-> << >>]
    /\ bnodes = {} /\ binputs = {} /\ epi_fmaps = << >> /\ bedges = {}
    /\ bresult = "none" /\ berror = ""

\* check_generated_files not called yet
GInit ==
    /\ gpc = "idle" /\ output_dir = {} /\ output_list_file = << >>
    /\ optional_output_list_file = [given |-> FALSE, lines |-> << >>]
    /\ found_files = {} /\ expected_files = << >> /\ optional_files = << >>
    /\ gresult = "none" /\ msg = << >>

Init == HInit /\ DInit /\ extras_to_make = {} /\ needs_t1w_transform = FALSE /\ BInit /\ GInit

HRaise(message) ==
    /\ hpc' = "done" /\ hresult' = "raised" /\ herror' = message

HReturn ==
    /\ hpc' = "done" /\ hresult' = "returned" /\ herror' = ""

\* ------------------------------------------- init_highres_recon_anatomical_wf
\* the call: workflow and outputnode are made, the configuration is read
HighresCall ==
    /\ hpc = "idle" /\ pc = "idle"
    /\ \E src \in PipelineSources, fsin \in FreesurferInputs,
          extras \in ExtrasChoices, needs \in BOOLEAN :
        \E dir \in InputDirs(src) :
            /\ pipeline_source' = src /\ recon_input_dir' = dir /\ freesurfer_input' = fsin
            /\ extras_to_make' = extras /\ needs_t1w_transform' = needs
    /\ hnodes' = {"outputnode"}
    /\ hpc' = "gather"
    /\ UNCHANGED <<subject_freesurfer_path, status, anat_ingress_node, missing_anats,
                   hadded, hedges, hresult, herror, dvars>>
    /\ UNCHANGED xvars

Gathered(g) ==
    /\ anat_ingress_node' = g.node /\ status' = g.status /\ missing_anats' = g.missing
    /\ hnodes' = hnodes \cup {g.node}
    /\ hpc' = "check_transform"
    /\ UNCHANGED <<pipeline_source, recon_input_dir, freesurfer_input, subject_freesurfer_path,
                   hadded, hedges, hresult, herror, pvars, dvars>>
    /\ UNCHANGED xvars

GatherQsiprep ==
    /\ hpc = "gather" /\ pipeline_source = "qsiprep"
    /\ Gathered(gather_qsiprep_anatomical_data(recon_input_dir, SubjectId))

\* the ukb branch calling the HCP gather function
GatherUkb_as_hcp ==
    /\ hpc = "gather" /\ pipeline_source = "ukb"
    /\ Gathered(gather_hcp_anatomical_data(recon_input_dir, SubjectId))

GatherUkb ==
    /\ hpc = "gather" /\ pipeline_source = "ukb"
    /\ Gathered(gather_ukb_anatomical_data(recon_input_dir, SubjectId))

GatherHcp ==
    /\ hpc = "gather" /\ pipeline_source = "hcpya"
    /\ Gathered(gather_hcp_anatomical_data(recon_input_dir, SubjectId))

UnknownPipelineSource ==
    /\ hpc = "gather" /\ pipeline_source \notin {"qsiprep", "ukb", "hcpya"}
    /\ HRaise("Unknown pipeline source")
    /\ UNCHANGED <<pipeline_source, recon_input_dir, freesurfer_input, subject_freesurfer_path,
                   status, anat_ingress_node, missing_anats, hnodes, hadded, hedges, pvars, dvars>>
    /\ UNCHANGED xvars

\* the to-template test made on the T1w flag instead of the transforms flag
cannot_compute_to_template_t1w_key(needs, st) == needs /\ ~st["has_qsiprep_t1w"]

cannot_compute_to_template(needs, st) == needs /\ ~st["has_qsiprep_t1w_transforms"]

HighresCheckTransform ==
    /\ hpc = "check_transform"
    /\ IF cannot_compute_to_template(needs_t1w_transform, status)
       THEN HRaise("Cannot compute to-template")
       ELSE hpc' = "find_fs" /\ UNCHANGED <<hresult, herror>>
    /\ UNCHANGED <<pipeline_source, recon_input_dir, freesurfer_input, subject_freesurfer_path,
                   status, anat_ingress_node, missing_anats, hnodes, hadded, hedges, pvars, dvars>>
    /\ UNCHANGED xvars

\* If a 5tt image is needed, this is an error: the test misspelt as in the last guard
hsvs_5tt_requested_misspelt(extras) == "mrtrix_5tt_hsv" \in extras

\* If a 5tt image is needed, this is an error
hsvs_5tt_requested(extras) == "mrtrix_5tt_hsvs" \in extras

\* the FreeSurfer lookup, and the return when no high-res data is available
FindFreesurfer ==
    /\ hpc = "find_fs"
    /\ LET path == find_fs_path(freesurfer_input, SubjectId)
           st == [status EXCEPT !["has_freesurfer"] = (path # "None")]
       IN  /\ subject_freesurfer_path' = path
           /\ status' = st
           /\ IF ~st["has_qsiprep_t1w"] /\ path = "None"
              THEN IF hsvs_5tt_requested(extras_to_make)
                   THEN /\ HRaise("FreeSurfer data is required to make HSVS 5tt image.")
                        /\ UNCHANGED hadded
                   ELSE /\ hadded' = hadded \cup {"outputnode"}
                        /\ HReturn
              ELSE /\ hpc' = "connect_ingress"
                   /\ UNCHANGED <<hadded, hresult, herror>>
    /\ UNCHANGED <<pipeline_source, recon_input_dir, freesurfer_input,
                   anat_ingress_node, missing_anats, hnodes, hedges, pvars, dvars>>
    /\ UNCHANGED xvars

ConnectIngress ==
    /\ hpc = "connect_ingress"
    /\ hedges' = hedges \cup Same(anat_ingress_node, "outputnode",
                                  qsiprep_highres_anatomical_ingressed_fields)
    /\ IF subject_freesurfer_path # "None"
       THEN /\ status' = [status EXCEPT !["has_freesurfer"] = TRUE]
            /\ hnodes' = hnodes \cup {"fs_source"}
       ELSE UNCHANGED <<status, hnodes>>
    /\ hpc' = "make_5tt"
    /\ UNCHANGED <<pipeline_source, recon_input_dir, freesurfer_input, subject_freesurfer_path,
                   anat_ingress_node, missing_anats, hadded, hresult, herror, pvars, dvars>>
    /\ UNCHANGED xvars

\* edges of the registration of the 5tt image to the QSIRecon T1w
Register5ttEdges ==
    {E(anat_ingress_node, "t1_preproc", "register_fs_to_qsiprep_wf",
       "inputnode.qsiprep_reference_image"),
     E(anat_ingress_node, "t1_brain_mask", "register_fs_to_qsiprep_wf",
       "inputnode.qsiprep_reference_mask"),
     E("register_fs_to_qsiprep_wf", "outputnode.fs_to_qsiprep_transform_mrtrix",
       "outputnode", "fs_to_qsiprep_transform_mrtrix"),
     E("register_fs_to_qsiprep_wf", "outputnode.fs_to_qsiprep_transform_itk",
       "outputnode", "fs_to_qsiprep_transform_itk"),
     E("create_5tt_hsvs", "out_file", "apply_header_to_5tt", "in_image"),
     E("register_fs_to_qsiprep_wf", "outputnode.fs_to_qsiprep_transform_mrtrix",
       "apply_header_to_5tt", "transform_file"),
     E("apply_header_to_5tt", "out_image", "outputnode", "qsiprep_5tt_hsvs"),
     E("apply_header_to_5tt", "out_image", "ds_qsiprep_5tt_hsvs", "in_file")}
    \cup {E("fs_source", f, "register_fs_to_qsiprep_wf", "inputnode." \o f) :
            f \in FS_FILES_TO_REGISTER}
    \cup {E("register_fs_to_qsiprep_wf", "outputnode." \o f, "outputnode", f) :
            f \in FS_FILES_TO_REGISTER}

Make5ttEdges ==
    {E(anat_ingress_node, "t1_preproc", "ds_fs_5tt_hsvs", "source_file"),
     E(anat_ingress_node, "t1_preproc", "ds_qsiprep_5tt_hsvs", "source_file"),
     E("create_5tt_hsvs", "out_file", "outputnode", "fs_5tt_hsvs"),
     E("create_5tt_hsvs", "out_file", "ds_fs_5tt_hsvs", "in_file")}

\* the 5tt image registered whether or not there is a QSIRecon T1w
status_with_5tt_always_registered(st) ==
    [st EXCEPT !["has_freesurfer_5tt_hsvs"] = TRUE, !["has_qsiprep_5tt_hsvs"] = TRUE]

\* the two 5tt flags as the 5tt section sets them
status_with_5tt(st) ==
    [st EXCEPT !["has_freesurfer_5tt_hsvs"] = TRUE,
               !["has_qsiprep_5tt_hsvs"] = (@ \/ st["has_qsiprep_t1w"])]

\* the 5tt section and the final return
Make5tt ==
    /\ hpc = "make_5tt"
    /\ IF "mrtrix_5tt_hsvs" \notin extras_to_make
       THEN HReturn /\ UNCHANGED <<status, hnodes, hedges>>
       ELSE IF subject_freesurfer_path = "None"
       THEN \* Path(None)
            /\ HRaise("TypeError")
            /\ UNCHANGED <<status, hnodes, hedges>>
       ELSE IF check_hsv_inputs(freesurfer_input.files) # << >>
       THEN /\ HRaise("are missing: unable to make a HSV.")
            /\ UNCHANGED <<status, hnodes, hedges>>
       ELSE /\ HReturn
            /\ status' = status_with_5tt(status)
            /\ hnodes' = hnodes \cup {"create_5tt_hsvs", "ds_qsiprep_5tt_hsvs", "ds_fs_5tt_hsvs"}
                         \cup (IF status["has_qsiprep_t1w"]
                               THEN {"register_fs_to_qsiprep_wf", "apply_header_to_5tt"}
                               ELSE {})
            /\ hedges' = hedges \cup Make5ttEdges
                         \cup (IF status["has_qsiprep_t1w"] THEN Register5ttEdges ELSE {})
    /\ UNCHANGED <<pipeline_source, recon_input_dir, freesurfer_input, subject_freesurfer_path,
                   anat_ingress_node, missing_anats, hadded, pvars, dvars>>
    /\ UNCHANGED xvars

\* ------------------------------------------ init_dwi_recon_anatomical_workflow
\* the field router
_get_source_node(cfi, cfb, fieldname) ==
    IF fieldname \in cfi THEN "inputnode"
    ELSE IF fieldname \in cfb THEN "buffernode"
    ELSE "Exception"

\* _exchange_fields without the difference_update
_exchange_fields_no_removal(cfi, cfb, fields) ==
    [connect_from_inputnode |-> cfi, connect_from_buffernode |-> cfb \cup fields]

\* _exchange_fields without the update
_exchange_fields_no_update(cfi, cfb, fields) ==
    [connect_from_inputnode |-> cfi \ fields, connect_from_buffernode |-> cfb]

_exchange_fields(cfi, cfb, fields) ==
    [connect_from_inputnode |-> cfi \ fields, connect_from_buffernode |-> cfb \cup fields]

Exchange(fields) ==
    LET x == _exchange_fields(connect_from_inputnode, connect_from_buffernode, fields)
    IN  /\ connect_from_inputnode' = x.connect_from_inputnode
        /\ connect_from_buffernode' = x.connect_from_buffernode
        /\ claimed' = fields

_get_status ==
    [has_qsiprep_5tt_hsvs |-> has_qsiprep_5tt_hsvs,
     has_freesurfer_5tt_hsvs |-> has_freesurfer_5tt_hsvs,
     has_qsiprep_t1w |-> has_qsiprep_t1w,
     has_qsiprep_t1w_transforms |-> has_qsiprep_t1w_transforms]

Raise(message) ==
    /\ pc' = "done" /\ result' = "raised" /\ error' = message /\ UNCHANGED returned_status

\* _get_status() reporting has_qsiprep_t1w as the caller passed it
Return_as_passed(t1w) ==
    /\ pc' = "done" /\ result' = "returned" /\ error' = ""
    /\ returned_status' = [_get_status EXCEPT !.has_qsiprep_t1w = has_qsiprep_t1w_arg]

\* return workflow, _get_status(), with the value has_qsiprep_t1w has at the return
Return(t1w) ==
    /\ pc' = "done" /\ result' = "returned" /\ error' = ""
    /\ returned_status' = [_get_status EXCEPT !.has_qsiprep_t1w = t1w]

\* inputnode, buffernode and the two sets of the router
DwiBegin ==
    /\ pc' = "router"
    /\ connect_from_inputnode' = recon_workflow_input_fields
    /\ connect_from_buffernode' = {}
    /\ claimed' = {}
    /\ nodes' = {"inputnode", "buffernode"}
    /\ edges' = {}
    /\ UNCHANGED <<node_inputs, outcome>>

\* These are always created here; then outputnode, the template nodes and the
\* reference grid
ClaimAlwaysCreated ==
    /\ pc = "router"
    /\ Exchange({"dwi_mask", "atlas_configs", "odf_rois", "resampling_template"})
    /\ nodes' = nodes \cup {"outputnode", "get_template", "mask_template",
                            "reorient_to_lps", "reference_grid_wf"}
    /\ edges' = {E("get_template", "template_file", "mask_template", "in_file_a"),
                 E("get_template", "mask_file", "mask_template", "in_file_b"),
                 E("mask_template", "out_file", "reorient_to_lps", "in_file"),
                 E("inputnode", "dwi_ref", "reference_grid_wf", "inputnode.input_image"),
                 E("reorient_to_lps", "out_file", "reference_grid_wf", "inputnode.template_image"),
                 E("reference_grid_wf", "outputnode.grid_image", "buffernode",
                   "resampling_template")}
    /\ pc' = "branch"
    /\ UNCHANGED <<hvars, pvars, flags, has_qsiprep_t1w, node_inputs, outcome>>
    /\ UNCHANGED xvars

\* called on its own, with any flags
DwiCallDirect ==
    /\ pc = "idle" /\ hpc = "idle"
    /\ \E atlases \in AtlasChoices, extras \in ExtrasChoices :
         /\ atlas_names' = atlases /\ extras_to_make' = extras
    /\ \E b \in [{"q5tt", "needs", "f5tt", "t1w", "xfm", "fs", "prefer"} -> BOOLEAN] :
         /\ has_qsiprep_5tt_hsvs' = b["q5tt"] /\ needs_t1w_transform' = b["needs"]
         /\ has_freesurfer_5tt_hsvs' = b["f5tt"] /\ has_qsiprep_t1w' = b["t1w"]
         /\ has_qsiprep_t1w_arg' = b["t1w"]
         /\ has_qsiprep_t1w_transforms' = b["xfm"] /\ has_freesurfer' = b["fs"]
         /\ prefer_dwi_mask' = b["prefer"]
    /\ chained' = FALSE
    /\ DwiBegin
    /\ UNCHANGED hvars
    /\ UNCHANGED xvars

\* called with the status init_highres_recon_anatomical_wf returned, with the same
\* extras_to_make and needs_t1w_transform; the frame of that call is gone
DwiCallChained ==
    /\ pc = "idle" /\ hpc = "done" /\ hresult = "returned"
    /\ \E atlases \in AtlasChoices, prefer \in BOOLEAN :
         /\ atlas_names' = atlases /\ prefer_dwi_mask' = prefer
    /\ has_qsiprep_5tt_hsvs' = status["has_qsiprep_5tt_hsvs"]
    /\ has_freesurfer_5tt_hsvs' = status["has_freesurfer_5tt_hsvs"]
    /\ has_qsiprep_t1w' = status["has_qsiprep_t1w"]
    /\ has_qsiprep_t1w_arg' = status["has_qsiprep_t1w"]
    /\ has_qsiprep_t1w_transforms' = status["has_qsiprep_t1w_transforms"]
    /\ has_freesurfer' = status["has_freesurfer"]
    /\ chained' = TRUE
    /\ DwiBegin
    /\ hpc' = "passed" /\ pipeline_source' = "" /\ recon_input_dir' = {}
    /\ freesurfer_input' = [found |-> FALSE, files |-> {}]
    /\ subject_freesurfer_path' = "unset" /\ anat_ingress_node' = ""
    /\ missing_anats' = << >> /\ hnodes' = {} /\ hadded' = {} /\ hedges' = {}
    /\ UNCHANGED <<status, hresult, herror, pvars>>
    /\ UNCHANGED xvars

\* Missing Freesurfer AND QSIRecon T1ws, or the user wants a DWI-based mask
mask_only_no_prefer(t1w, fs, prefer) == ~(t1w \/ fs)

mask_only(t1w, fs, prefer) == ~(t1w \/ fs) \/ prefer

\* the mask-only return without the pass-through of the input-sourced fields
MaskOnly_no_passthrough ==
    /\ pc = "branch"
    /\ mask_only(has_qsiprep_t1w, has_freesurfer, prefer_dwi_mask)
    /\ nodes' = nodes \cup {"extract_b0s", "mask_b0s"}
    /\ edges' = edges
                \cup {E("inputnode", "dwi_file", "extract_b0s", "dwi_series"),
                      E("inputnode", "bval_file", "extract_b0s", "bval_file"),
                      E("extract_b0s", "b0_series", "mask_b0s", "in_file"),
                      E("mask_b0s", "out_file", "outputnode", "dwi_mask")}
    /\ Return(has_qsiprep_t1w)
    /\ UNCHANGED <<hvars, pvars, flags, has_qsiprep_t1w, router, node_inputs>>
    /\ UNCHANGED xvars

MaskOnly ==
    /\ pc = "branch"
    /\ mask_only(has_qsiprep_t1w, has_freesurfer, prefer_dwi_mask)
    /\ nodes' = nodes \cup {"extract_b0s", "mask_b0s"}
    /\ edges' = edges
                \cup {E("inputnode", "dwi_file", "extract_b0s", "dwi_series"),
                      E("inputnode", "bval_file", "extract_b0s", "bval_file"),
                      E("extract_b0s", "b0_series", "mask_b0s", "in_file"),
                      E("mask_b0s", "out_file", "outputnode", "dwi_mask")}
                \cup Same("inputnode", "outputnode", connect_from_inputnode)
    /\ Return(has_qsiprep_t1w)
    /\ UNCHANGED <<hvars, pvars, flags, has_qsiprep_t1w, router, node_inputs>>
    /\ UNCHANGED xvars

\* No data from QSIRecon was available, BUT we have freesurfer
RegisterFreesurfer ==
    /\ pc = "branch"
    /\ ~mask_only(has_qsiprep_t1w, has_freesurfer, prefer_dwi_mask)
    /\ has_freesurfer /\ ~has_qsiprep_t1w
    /\ Exchange(FS_FILES_TO_REGISTER
                \cup {"t1_brain_mask", "t1_preproc", "fs_to_qsiprep_transform_mrtrix",
                      "fs_to_qsiprep_transform_itk"})
    /\ has_qsiprep_t1w' = TRUE
    /\ nodes' = nodes \cup {"fs_source", "register_fs_to_qsiprep_wf"}
    /\ edges' = edges
                \cup {E("inputnode", "subject_id", "fs_source", "subject_id"),
                      E("inputnode", "dwi_ref", "register_fs_to_qsiprep_wf",
                        "inputnode.qsiprep_reference_image"),
                      E("register_fs_to_qsiprep_wf", "outputnode.brain", "buffernode",
                        "t1_preproc"),
                      E("register_fs_to_qsiprep_wf", "outputnode.aseg", "buffernode",
                        "t1_brain_mask"),
                      E("register_fs_to_qsiprep_wf", "outputnode.fs_to_qsiprep_transform_mrtrix",
                        "buffernode", "fs_to_qsiprep_transform_mrtrix"),
                      E("register_fs_to_qsiprep_wf", "outputnode.fs_to_qsiprep_transform_itk",
                        "buffernode", "fs_to_qsiprep_transform_itk")}
                \cup {E("fs_source", f, "register_fs_to_qsiprep_wf", "inputnode." \o f) :
                        f \in FS_FILES_TO_REGISTER}
                \cup {E("register_fs_to_qsiprep_wf", "outputnode." \o f, "buffernode", f) :
                        f \in FS_FILES_TO_REGISTER}
    /\ pc' = "transform_5tt"
    /\ UNCHANGED <<hvars, pvars, flags, node_inputs, outcome>>
    /\ UNCHANGED xvars

\* neither branch of the if/elif is taken
SkipRegistration ==
    /\ pc = "branch"
    /\ ~mask_only(has_qsiprep_t1w, has_freesurfer, prefer_dwi_mask)
    /\ ~(has_freesurfer /\ ~has_qsiprep_t1w)
    /\ pc' = "transform_5tt"
    /\ UNCHANGED <<hvars, pvars, flags, has_qsiprep_t1w, router, nodes, node_inputs, edges, outcome>>
    /\ UNCHANGED xvars

\* Do we need to transform the 5tt hsvs from fsnative?
\* the test made on the name the last guard uses
needs_5tt_transform_misspelt(extras, q5tt) == "mrtrix_5tt_hsv" \in extras /\ ~q5tt

needs_5tt_transform(extras, q5tt) == "mrtrix_5tt_hsvs" \in extras /\ ~q5tt

Transform5tt ==
    /\ pc = "transform_5tt"
    /\ IF needs_5tt_transform(extras_to_make, has_qsiprep_5tt_hsvs)
       THEN /\ Exchange({"qsiprep_5tt_hsvs"})
            /\ IF ~has_freesurfer_5tt_hsvs
               THEN /\ Raise("The 5tt image in fsnative should have been created by now")
                    /\ UNCHANGED <<nodes, node_inputs, edges>>
               ELSE /\ nodes' = nodes \cup {"apply_header_to_5tt_hsvs", "ds_qsiprep_5tt_hsvs"}
                    /\ edges' = edges
                         \cup {E("inputnode", "fs_5tt_hsvs", "apply_header_to_5tt_hsvs", "in_image"),
                               E("apply_header_to_5tt_hsvs", "out_image", "buffernode",
                                 "qsiprep_5tt_hsvs"),
                               E("apply_header_to_5tt_hsvs", "out_image", "ds_qsiprep_5tt_hsvs",
                                 "in_file")}
                    /\ pc' = "check_transforms"
                    /\ UNCHANGED <<node_inputs, outcome>>
       ELSE /\ pc' = "check_transforms"
            /\ UNCHANGED <<router, nodes, node_inputs, edges, outcome>>
    /\ UNCHANGED <<hvars, pvars, flags, has_qsiprep_t1w>>
    /\ UNCHANGED xvars

\* Check the status of the T1wACPC-to-template transforms
CheckTemplateTransforms ==
    /\ pc = "check_transforms"
    /\ IF needs_t1w_transform /\ ~has_qsiprep_t1w_transforms
       THEN Raise("Reconstruction workflow requires a T1wACPC-to-template transform.")
       ELSE pc' = "resample_mask" /\ UNCHANGED outcome
    /\ UNCHANGED <<hvars, pvars, flags, has_qsiprep_t1w, router, nodes, node_inputs, edges>>
    /\ UNCHANGED xvars

\* one input an interface is built with
In(node, input, value) == [node |-> node, input |-> input, value |-> value]

\* resample_mask built with the default interpolation
resample_mask_inputs_linear ==
    {In("resample_mask", "dimension", "3"), In("resample_mask", "transforms", "identity"),
     In("resample_mask", "interpolation", "Linear")}

resample_mask_inputs ==
    {In("resample_mask", "dimension", "3"), In("resample_mask", "transforms", "identity"),
     In("resample_mask", "interpolation", "NearestNeighbor")}

odf_rois_inputs ==
    {In("odf_rois", "dimension", "3"), In("odf_rois", "interpolation", "MultiLabel"),
     In("odf_rois", "input_image", "data/crossing_rois.nii.gz")}

\* Simply resample the T1w mask into the DWI resolution
ResampleMask ==
    /\ pc = "resample_mask"
    /\ IF has_qsiprep_t1w /\ ~prefer_dwi_mask
       THEN /\ nodes' = nodes \cup {"resample_mask"}
            /\ node_inputs' = node_inputs \cup resample_mask_inputs
            /\ edges' = edges
                        \cup {E("inputnode", "t1_brain_mask", "resample_mask", "input_image"),
                              E("inputnode", "dwi_ref", "resample_mask", "reference_image"),
                              E("resample_mask", "output_image", "buffernode", "dwi_mask")}
       ELSE UNCHANGED <<nodes, node_inputs, edges>>
    /\ pc' = "warp_rois"
    /\ UNCHANGED <<hvars, pvars, flags, has_qsiprep_t1w, router, outcome>>
    /\ UNCHANGED xvars

\* the four data sinks made for one atlas
AtlasSinkPrefixes == {"ds_atlas_", "ds_atlas_mifs_", "ds_atlas_mrtrix_lut_", "ds_atlas_orig_lut_"}
AtlasSinks(atlas) == {prefix \o atlas : prefix \in AtlasSinkPrefixes}

\* node_suffix == "ds_atlas_" + atlas
startswith_ds_atlas_exact(node) ==
    \E a \in Range(AtlasLibrary) : node = "ds_atlas_" \o a

\* node_suffix.startswith("ds_atlas_")
startswith_ds_atlas(node) ==
    \E a \in Range(AtlasLibrary) : node \in AtlasSinks(a)

\* If we have transforms to the template space, use them to get ROIs/atlases
WarpRoisAndAtlases ==
    /\ pc = "warp_rois"
    /\ LET source == _get_source_node(connect_from_inputnode, connect_from_buffernode,
                                      "t1_2_mni_reverse_transform")
           sinks == UNION {AtlasSinks(a) : a \in atlas_names}
           roi_edges ==
               {E(source, "t1_2_mni_reverse_transform", "odf_rois", "transforms"),
                E("inputnode", "dwi_file", "odf_rois", "reference_image"),
                E("odf_rois", "output_image", "buffernode", "odf_rois")}
           atlas_edges ==
               IF atlas_names # {}
               THEN {E(source, "t1_2_mni_reverse_transform", "get_atlases", "forward_transform"),
                     E("get_atlases", "atlas_configs", "buffernode", "atlas_configs"),
                     E("inputnode", "dwi_file", "get_atlases", "reference_image")}
                    \cup {E("get_atlases", "atlas_configs", sink, "in_file") : sink \in sinks}
               ELSE {}
           connected == edges \cup roi_edges \cup atlas_edges
       IN  IF ~has_qsiprep_t1w_transforms
           THEN pc' = "finalize" /\ UNCHANGED <<nodes, node_inputs, edges, outcome>>
           ELSE IF source = "Exception"
           THEN /\ Raise("Can't determine location of t1_2_mni_reverse_transform")
                /\ UNCHANGED <<nodes, node_inputs, edges>>
           ELSE /\ node_inputs' = node_inputs \cup odf_rois_inputs
                /\ nodes' = nodes \cup {"odf_rois"}
                            \cup (IF atlas_names # {} THEN {"get_atlases"} \cup sinks ELSE {})
                /\ edges' = connected
                            \cup {E("inputnode", "dwi_file", node, "source_file") :
                                    node \in {n \in list_node_names(connected) :
                                                startswith_ds_atlas(n)}}
                /\ pc' = "finalize"
                /\ UNCHANGED outcome
    /\ UNCHANGED <<hvars, pvars, flags, has_qsiprep_t1w, router>>
    /\ UNCHANGED xvars

\* the last 5tt guard, then: directly connect anything from the inputs that we
\* haven't created here
\* the last guard testing the name the rest of the function uses
unable_to_create_5tt_hsvs(extras, q5tt) == "mrtrix_5tt_hsvs" \in extras /\ ~q5tt

unable_to_create_5tt(extras, q5tt) == "mrtrix_5tt_hsv" \in extras /\ ~q5tt

Finalize ==
    /\ pc = "finalize"
    /\ IF unable_to_create_5tt(extras_to_make, has_qsiprep_5tt_hsvs)
       THEN /\ Raise("Unable to create a 5tt HSV image given input data.")
            /\ UNCHANGED edges
       ELSE /\ edges' = edges
                        \cup Same("inputnode", "outputnode", connect_from_inputnode)
                        \cup Same("buffernode", "outputnode", connect_from_buffernode)
            /\ Return(has_qsiprep_t1w)
    /\ UNCHANGED <<hvars, pvars, flags, has_qsiprep_t1w, router, nodes, node_inputs>>
    /\ UNCHANGED xvars

DNext ==
    \/ DwiCallDirect \/ DwiCallChained \/ ClaimAlwaysCreated \/ MaskOnly \/ RegisterFreesurfer \/ SkipRegistration
    \/ Transform5tt \/ CheckTemplateTransforms \/ ResampleMask \/ WarpRoisAndAtlases
    \/ Finalize

HNext ==
    \/ HighresCall \/ GatherQsiprep \/ GatherUkb \/ GatherHcp \/ UnknownPipelineSource
    \/ HighresCheckTransform \/ FindFreesurfer \/ ConnectIngress \/ Make5tt

Next == HNext \/ DNext
Spec == Init /\ [][Next]_vars

\* ------------------------------------------------------------ the field router alone
\* the fields some call of _exchange_fields in the function names
ClaimableFields ==
    {"dwi_mask", "atlas_configs", "odf_rois", "resampling_template"}
    \cup FS_FILES_TO_REGISTER
    \cup {"t1_brain_mask", "t1_preproc", "fs_to_qsiprep_transform_mrtrix",
          "fs_to_qsiprep_transform_itk"}
    \cup {"qsiprep_5tt_hsvs"}

ClaimLists == {x \in SUBSET ClaimableFields : Cardinality(x) \in 1..MaxClaim}

\* the router as it is made, before any claim
RInit ==
    /\ HInit /\ extras_to_make = {} /\ needs_t1w_transform = FALSE
    /\ pc = "router" /\ chained = FALSE /\ atlas_names = {} /\ prefer_dwi_mask = FALSE
    /\ has_qsiprep_5tt_hsvs = FALSE /\ has_freesurfer_5tt_hsvs = FALSE
    /\ has_qsiprep_t1w = FALSE /\ has_qsiprep_t1w_transforms = FALSE /\ has_freesurfer = FALSE
    /\ has_qsiprep_t1w_arg = FALSE
    /\ connect_from_inputnode = recon_workflow_input_fields
    /\ connect_from_buffernode = {} /\ claimed = {}
    /\ nodes = {"inputnode", "buffernode"} /\ node_inputs = {} /\ edges = {}
    /\ result = "none" /\ error = "" /\ returned_status = NoStatus
    /\ BInit /\ GInit

\* any call of _exchange_fields
RouterClaim ==
    /\ pc = "router"
    /\ \E fields \in ClaimLists : Exchange(fields)
    /\ UNCHANGED <<hvars, pvars, pc, flags, has_qsiprep_t1w, nodes, node_inputs, edges, outcome>>
    /\ UNCHANGED xvars

RNext == RouterClaim
SpecRouter == RInit /\ [][RNext]_vars

\* --------------------------------------- init_drbuddi_wf (qsiprep/workflows/fieldmap)
\* the suffixes a fieldmap of a scan group can have
FieldmapSuffixes == {"epi", "rpe_series", "dwi", "fieldmap", "phasediff"}
\* the keys of fieldmap_info that hold image lists
FieldmapImageKeys == {"epi", "rpe_series", "dwi"}
FieldmapImageLists == {<<"dir-PA_dwi">>, <<"dir-AP_epi", "dir-PA_epi">>}

\* fieldmap_info: its suffix entry and its image-list entries
FieldmapInfos ==
    {[suffix |-> sfx, images |-> im] :
        sfx \in FieldmapSuffixes,
        im \in UNION {[keys -> FieldmapImageLists] : keys \in SUBSET FieldmapImageKeys}}

\* the suffix test letting plain fieldmaps through
suffix_accepted_with_fieldmap(suffix) == suffix \in {"epi", "rpe_series", "dwi", "fieldmap"}

\* fieldmap_info['suffix'] in ('epi', 'rpe_series', 'dwi')
suffix_accepted(suffix) == suffix \in {"epi", "rpe_series", "dwi"}

BRaise(m) == bpc' = "done" /\ bresult' = "raised" /\ berror' = m

\* the call: workflow, inputnode and outputnode are made
DrbuddiCall ==
    /\ bpc = "idle"
    /\ \E info \in FieldmapInfos : fieldmap_info' = info
    /\ bnodes' = {"inputnode", "outputnode"}
    /\ bpc' = "check_suffix"
    /\ UNCHANGED <<binputs, epi_fmaps, bedges, bresult, berror>>
    /\ UNCHANGED <<hvars, pvars, dvars, gvars>>

DrbuddiCheckSuffix ==
    /\ bpc = "check_suffix"
    /\ IF ~suffix_accepted(fieldmap_info.suffix)
       THEN /\ BRaise("DRBUDDI workflow requires epi, rpe_series or dwi fieldmaps")
            /\ UNCHANGED binputs
       ELSE /\ binputs' = binputs
                    \cup {In("outputnode", "method",
                             "PEB/PEPOLAR (phase-encoding based / PE-POLARity): "
                             \o fieldmap_info.suffix)}
            /\ bpc' = "gather"
            /\ UNCHANGED <<bresult, berror>>
    /\ UNCHANGED <<fieldmap_info, bnodes, epi_fmaps, bedges>>
    /\ UNCHANGED <<hvars, pvars, dvars, gvars>>

\* gather_drbuddi_inputs; fieldmap_info[fieldmap_info['suffix']] is a KeyError
\* when the entry is not there
DrbuddiGatherInputs ==
    /\ bpc = "gather"
    /\ IF fieldmap_info.suffix \notin DOMAIN fieldmap_info.images
       THEN /\ BRaise("KeyError")
            /\ UNCHANGED <<bnodes, binputs, epi_fmaps>>
       ELSE /\ epi_fmaps' = fieldmap_info.images[fieldmap_info.suffix]
            /\ binputs' = binputs
                    \cup {In("gather_drbuddi_inputs", "fieldmap_type", fieldmap_info.suffix)}
            /\ bnodes' = bnodes \cup {"gather_drbuddi_inputs"}
            /\ bpc' = "connect"
            /\ UNCHANGED <<bresult, berror>>
    /\ UNCHANGED <<fieldmap_info, bedges>>
    /\ UNCHANGED <<hvars, pvars, dvars, gvars>>

DrbuddiEdges ==
    Same("inputnode", "gather_drbuddi_inputs",
         {"dwi_files", "bval_files", "bvec_files", "original_files"})
    \cup Same("gather_drbuddi_inputs", "drbuddi",
              {"blip_assignments", "blip_up_image", "blip_up_json", "blip_up_bmat",
               "blip_down_image", "blip_down_bmat"})
    \cup {E("inputnode", "t2_brain", "drbuddi", "structural_image"),
          E("gather_drbuddi_inputs", "report", "drbuddi_summary", "summary")}
    \cup Same("drbuddi", "aggregate_drbuddi",
              {"undistorted_reference", "bdown_to_bup_rigid_trans_h5", "blip_down_b0",
               "blip_down_b0_corrected", "blip_down_b0_corrected_jac", "blip_down_b0_quad",
               "blip_up_b0", "blip_up_b0_corrected", "blip_up_b0_corrected_jac",
               "blip_up_b0_quad", "deformation_finv", "deformation_minv", "blip_up_FA",
               "blip_down_FA"})
    \cup {E("gather_drbuddi_inputs", "blip_assignments", "aggregate_drbuddi", "blip_assignments"),
          E("drbuddi", "undistorted_reference", "outputnode", "b0_ref")}
    \cup Same("aggregate_drbuddi", "outputnode", {"sdc_warps", "sdc_scaling_images"})

\* drbuddi, aggregate_drbuddi and drbuddi_summary, the connections and the return
DrbuddiConnect ==
    /\ bpc = "connect"
    /\ bnodes' = bnodes \cup {"drbuddi", "aggregate_drbuddi", "drbuddi_summary"}
    /\ binputs' = binputs
            \cup {In("drbuddi", "fieldmap_type", fieldmap_info.suffix),
                  In("aggregate_drbuddi", "fieldmap_type", fieldmap_info.suffix)}
    /\ bedges' = bedges \cup DrbuddiEdges
    /\ bpc' = "done" /\ bresult' = "returned"
    /\ UNCHANGED <<fieldmap_info, epi_fmaps, berror>>
    /\ UNCHANGED <<hvars, pvars, dvars, gvars>>

BNext == DrbuddiCall \/ DrbuddiCheckSuffix \/ DrbuddiGatherInputs \/ DrbuddiConnect
SpecDrbuddi == Init /\ [][BNext]_vars

\* ------------------------------------------------ check_generated_files (tests/utils)
\* A path is a sequence of tokens: names and the separator "/".
OutputDirPrefix == <<"out", "/">>
\* what glob(output_dir/**/*) can list: files and directories
OutputUniverse ==
    {<<"dwi.nii.gz">>, <<"logs">>, <<"dwi_figures.html">>,
     <<"figures">>, <<"figures", "/", "plot.svg">>,
     <<"log">>, <<"log", "/", "run.toml">>}
\* the directory of a path
dirname(f) == IF Len(f) > 2 THEN SubSeq(f, 1, Len(f) - 2) ELSE << >>
\* a file is in a directory that is there
OutputDirs ==
    {{OutputDirPrefix \o f : f \in d} :
        d \in {x \in SUBSET OutputUniverse :
                 \A f \in x : dirname(f) = << >> \/ dirname(f) \in x}}

SeqsUpTo(S, n) == UNION {[1..k -> S] : k \in 0..n}
\* the lines of an output list file, with their line ends
ExpectedLines ==
    {<<"dwi.nii.gz", "\n">>, <<"dwi.nii.gz", " ", "\n">>, <<"logs", "\n">>,
     <<"figures", "/", "plot.svg", "\n">>}
OptionalLines == {<<"logs", "\n">>}
OutputListFiles == SeqsUpTo(ExpectedLines, MaxListed)
OptionalOutputListFiles ==
    {[given |-> FALSE, lines |-> << >>]}
    \cup {[given |-> TRUE, lines |-> l] : l \in SeqsUpTo(OptionalLines, MaxListed)}

\* os.path.relpath(f, output_dir)
relpath(f) == SubSeq(f, Len(OutputDirPrefix) + 1, Len(f))
\* the names that have "figures" in them
FiguresTokens == {"figures", "dwi_figures.html"}
\* "figures" in f
contains_figures(f) == \E i \in DOMAIN f : f[i] \in FiguresTokens
\* f.split(os.path.sep)
split_sep(f) == {f[i] : i \in DOMAIN f} \ {"/"}
Whitespace == {" ", "\n"}
RECURSIVE rstrip(_)
\* f.rstrip()
rstrip(line) ==
    IF line # << >> /\ line[Len(line)] \in Whitespace
    THEN rstrip(SubSeq(line, 1, Len(line) - 1))
    ELSE line

\* the found files kept whether or not they are optional
not_in_optional_unfiltered(found_not_expected, optional) == found_not_expected

\* [f for f in found_not_expected if f not in optional_files]
not_in_optional(found_not_expected, optional) ==
    {f \in found_not_expected : f \notin Range(optional)}

CheckCall ==
    /\ gpc = "idle"
    /\ \E dir \in OutputDirs, list \in OutputListFiles, opt \in OptionalOutputListFiles :
         /\ output_dir' = dir /\ output_list_file' = list
         /\ optional_output_list_file' = opt
    /\ gpc' = "glob"
    /\ UNCHANGED <<found_files, expected_files, optional_files, gresult, msg>>
    /\ UNCHANGED <<hvars, pvars, dvars, bvars>>

\* glob and relpath
GlobFiles ==
    /\ gpc = "glob"
    /\ found_files' = {relpath(f) : f \in output_dir}
    /\ gpc' = "ignore_figures"
    /\ UNCHANGED <<output_dir, output_list_file, optional_output_list_file,
                   expected_files, optional_files, gresult, msg>>
    /\ UNCHANGED <<hvars, pvars, dvars, bvars>>

\* Ignore figures
IgnoreFigures ==
    /\ gpc = "ignore_figures"
    /\ found_files' = {f \in found_files : ~contains_figures(f)}
    /\ gpc' = "ignore_logs"
    /\ UNCHANGED <<output_dir, output_list_file, optional_output_list_file,
                   expected_files, optional_files, gresult, msg>>
    /\ UNCHANGED <<hvars, pvars, dvars, bvars>>

\* Ignore logs
IgnoreLogs ==
    /\ gpc = "ignore_logs"
    /\ found_files' = {f \in found_files : "log" \notin split_sep(f)}
    /\ gpc' = "read_expected"
    /\ UNCHANGED <<output_dir, output_list_file, optional_output_list_file,
                   expected_files, optional_files, gresult, msg>>
    /\ UNCHANGED <<hvars, pvars, dvars, bvars>>

ReadExpected ==
    /\ gpc = "read_expected"
    /\ expected_files' = [i \in DOMAIN output_list_file |-> rstrip(output_list_file[i])]
    /\ gpc' = "read_optional"
    /\ UNCHANGED <<output_dir, output_list_file, optional_output_list_file,
                   found_files, optional_files, gresult, msg>>
    /\ UNCHANGED <<hvars, pvars, dvars, bvars>>

ReadOptional ==
    /\ gpc = "read_optional"
    /\ optional_files' =
          IF optional_output_list_file.given
          THEN [i \in DOMAIN optional_output_list_file.lines |->
                    rstrip(optional_output_list_file.lines[i])]
          ELSE << >>
    /\ gpc' = "compare"
    /\ UNCHANGED <<output_dir, output_list_file, optional_output_list_file,
                   found_files, expected_files, gresult, msg>>
    /\ UNCHANGED <<hvars, pvars, dvars, bvars>>

\* sorted(found_files) != sorted(expected_files): found_files has no duplicate
lists_differ(found, expected) ==
    ~(Len(expected) = Cardinality(found) /\ Range(expected) = found)

CompareFiles ==
    /\ gpc = "compare"
    /\ LET expected_not_found == Range(expected_files) \ found_files
           found_not_expected ==
               not_in_optional(found_files \ Range(expected_files), optional_files)
           m == (IF expected_not_found # {} THEN <<"Expected but not found">> ELSE << >>)
                \o (IF found_not_expected # {} THEN <<"Found but not expected">> ELSE << >>)
       IN  IF lists_differ(found_files, expected_files) /\ m # << >>
           THEN gresult' = "raised" /\ msg' = m
           ELSE gresult' = "returned" /\ msg' = << >>
    /\ gpc' = "done"
    /\ UNCHANGED <<output_dir, output_list_file, optional_output_list_file,
                   found_files, expected_files, optional_files>>
    /\ UNCHANGED <<hvars, pvars, dvars, bvars>>

GNext ==
    \/ CheckCall \/ GlobFiles \/ IgnoreFigures \/ IgnoreLogs
    \/ ReadExpected \/ ReadOptional \/ CompareFiles
SpecCheckFiles == Init /\ [][GNext]_vars

\* ======================================================================
\* Properties
\* ======================================================================
FiveTT == "mrtrix_5tt_hsvs"
DwiReturned == pc = "done" /\ result = "returned"
DwiRaised == pc = "done" /\ result = "raised"

\* the b0-extraction-and-mask branch
B0MaskBranch ==
    {E("inputnode", "dwi_file", "extract_b0s", "dwi_series"),
     E("inputnode", "bval_file", "extract_b0s", "bval_file"),
     E("extract_b0s", "b0_series", "mask_b0s", "in_file"),
     E("mask_b0s", "out_file", "outputnode", "dwi_mask")}

\* C1: whenever init_dwi_recon_anatomical_workflow ends with needs_t1w_transform
\* true and has_qsiprep_t1w_transforms false, it has raised and has returned
\* no (workflow, status) pair.
C1_MissingTransformAlwaysRaises ==
    (pc = "done" /\ needs_t1w_transform /\ ~has_qsiprep_t1w_transforms)
        => (result = "raised" /\ returned_status = NoStatus)

\* C2: whenever the mask-only path is taken and the 5tt segmentation is among
\* extras_to_make, init_dwi_recon_anatomical_workflow ends in an error.
C2_MaskOnlyWith5ttRaises ==
    (pc = "done" /\ FiveTT \in extras_to_make
     /\ (~(has_qsiprep_t1w \/ has_freesurfer) \/ prefer_dwi_mask))
        => result = "raised"

\* C3: in init_highres_recon_anatomical_wf, when the 5tt segmentation is asked
\* for and no FreeSurfer directory exists for the subject, the create_5tt_hsvs
\* node and the two 5tt data sinks are never created, nothing is ever returned,
\* and the call ends in an error.
C3_No5ttNodesWithoutFreesurfer ==
    (hpc \notin {"idle", "passed"} /\ FiveTT \in extras_to_make /\ ~freesurfer_input.found)
        => /\ hnodes \cap {"create_5tt_hsvs", "ds_qsiprep_5tt_hsvs", "ds_fs_5tt_hsvs"} = {}
           /\ hresult # "returned"
           /\ hpc = "done" => hresult = "raised"

\* C3 witness: a subject with a T1w image and no FreeSurfer directory asked for
\* the 5tt segmentation and the call has raised.
C3_Witness ==
    /\ hpc = "done" /\ hresult = "raised" /\ FiveTT \in extras_to_make
    /\ ~freesurfer_input.found /\ subject_freesurfer_path = "None"
    /\ status["has_qsiprep_t1w"]

\* C4: in every returned graph each field of recon_workflow_input_fields is
\* connected into outputnode, from inputnode if it is input-sourced and from
\* buffernode if it is computed.
C4_EveryFieldWiredFromItsSet ==
    DwiReturned =>
        \A f \in recon_workflow_input_fields :
            /\ f \in connect_from_inputnode => E("inputnode", f, "outputnode", f) \in edges
            /\ f \in connect_from_buffernode => E("buffernode", f, "outputnode", f) \in edges

\* C5: in every returned graph no node reads from inputnode a field that has
\* been claimed as locally computed.
C5_ClaimedFieldsReadFromBuffer ==
    DwiReturned =>
        \A e \in edges : e.src = "inputnode" => e.srcfield \notin connect_from_buffernode

\* C6: when prefer_dwi_mask is true the construction returns a graph, the graph
\* holds the extract_b0s -> mask_b0s -> outputnode.dwi_mask branch and holds no
\* resample_mask node.
C6_PreferDwiMaskGraph ==
    (pc = "done" /\ prefer_dwi_mask)
        => /\ result = "returned"
           /\ B0MaskBranch \subseteq edges
           /\ "resample_mask" \notin nodes \cup list_node_names(edges)

\* C6 witness: a graph was returned for a caller who prefers the DWI mask although
\* a T1w image and FreeSurfer data are both available.
C6_Witness ==
    DwiReturned /\ prefer_dwi_mask /\ has_qsiprep_t1w /\ has_freesurfer

\* C7: the input-sourced set and the computed set are disjoint at every point,
\* and no field of outputnode is connected from both inputnode and buffernode.
C7_SourcingSetsDisjoint ==
    /\ connect_from_inputnode \cap connect_from_buffernode = {}
    /\ \A e1, e2 \in edges :
          (e1.dst = "outputnode" /\ e2.dst = "outputnode" /\ e1.dstfield = e2.dstfield)
              => ~(e1.src = "inputnode" /\ e2.src = "buffernode")

\* C7 witness: the FreeSurfer-registration branch has claimed t1_preproc and the
\* returned graph forwards it from buffernode.
C7_Witness ==
    /\ DwiReturned /\ "t1_preproc" \in connect_from_buffernode
    /\ E("buffernode", "t1_preproc", "outputnode", "t1_preproc") \in edges

\* C8: at every point of the assembly each field of recon_workflow_input_fields
\* is in exactly one of the two sets, so _get_source_node finds its node.
C8_EveryFieldInExactlyOneSet ==
    pc # "idle" =>
        \A f \in recon_workflow_input_fields :
            /\ (f \in connect_from_inputnode) # (f \in connect_from_buffernode)
            /\ _get_source_node(connect_from_inputnode, connect_from_buffernode, f)
                   \in {"inputnode", "buffernode"}

\* C8 witness: in the middle of the assembly, after the FreeSurfer-registration
\* branch and the 5tt step have both claimed fields.
C8_Witness ==
    /\ pc = "check_transforms"
    /\ {"t1_brain_mask", "qsiprep_5tt_hsvs", "dwi_mask"} \subseteq connect_from_buffernode

\* the QSIPrep T1w requirement list of the subject
T1wRequirements == {format(r, SubjectId) : r \in Range(QSIRECON_ANAT_REQUIREMENTS)}
TransformRequirements ==
    {format(r, SubjectId) : r \in Range(QSIRECON_NORMALIZED_ANAT_REQUIREMENTS)}
QsiprepGathered == pipeline_source = "qsiprep" /\ hpc \notin {"idle", "gather"}

\* C9: for pipeline source qsiprep, when every path of the T1w requirement list
\* exists, the gathered status has has_qsiprep_t1w = true and the missing list
\* is empty, whatever transform files exist.
C9_CompleteT1wIsFound ==
    (QsiprepGathered /\ T1wRequirements \subseteq recon_input_dir)
        => /\ anat_ingress_node = "qsiprep_anat_ingress"
           /\ status["has_qsiprep_t1w"]
           /\ missing_anats = << >>

\* C9 witness: both T1w files exist, no transform file does, and the status was
\* gathered.
C9_Witness ==
    /\ QsiprepGathered /\ hpc = "check_transform"
    /\ T1wRequirements \subseteq recon_input_dir
    /\ TransformRequirements \cap recon_input_dir = {}
    /\ ~status["has_qsiprep_t1w_transforms"]

\* required files with neither the required path nor the T2w-named path present
LackingAtPath ==
    {r \in T1wRequirements : r \notin recon_input_dir /\ replace_T1w_T2w(r) \notin recon_input_dir}

\* required files of which no form exists: gzipped or not, T1w- or T2w-named
LackingEveryForm ==
    {r \in T1wRequirements :
        {r, strip3(r), replace_T1w_T2w(r), strip3(replace_T1w_T2w(r))} \cap recon_input_dir = {}}

\* C10 as stated: when a required T1w file does not exist at its required path
\* and no T2w-named equivalent exists, has_qsiprep_t1w is false and the missing
\* list holds exactly the paths of those files.
C10_MissingAtPathIsReported ==
    (QsiprepGathered /\ LackingAtPath # {})
        => /\ ~status["has_qsiprep_t1w"]
           /\ Range(missing_anats) = LackingAtPath

\* C10 amended: when a required T1w file exists in no form (neither at its
\* required path nor non-gzipped, neither T1w- nor T2w-named), has_qsiprep_t1w is
\* false; the missing list holds exactly the required paths of those files, and
\* no path that exists.
C10_MissingInEveryFormIsReported ==
    QsiprepGathered =>
        /\ LackingEveryForm # {} => ~status["has_qsiprep_t1w"]
        /\ Range(missing_anats) = LackingEveryForm
        /\ Range(missing_anats) \cap recon_input_dir = {}

\* C10 witness: the brain mask exists, the preprocessed T1w exists in no form,
\* and exactly its path was reported.
C10_Witness ==
    /\ QsiprepGathered /\ hpc = "check_transform"
    /\ Cardinality(LackingEveryForm) = 1
    /\ \E r \in T1wRequirements : r[3] = "_T1w" /\ missing_anats = <<r>>
    /\ ~status["has_qsiprep_t1w"]

\* the two QSIPrep T1w requirements of the subject
BrainMask == format(QSIRECON_ANAT_REQUIREMENTS[1], SubjectId)
PreprocT1w == format(QSIRECON_ANAT_REQUIREMENTS[2], SubjectId)
UkbGathered == pipeline_source = "ukb" /\ hpc \notin {"idle", "gather"}
HcpGathered == pipeline_source = "hcpya" /\ hpc \notin {"idle", "gather"}

\* C11: with qsiprep, a subject whose preprocessed T1w is absent but whose T2w
\* equivalent and brain mask exist has has_qsiprep_t1w = true; with ukb or hcpya
\* has_qsiprep_t1w is true exactly when both files of the pipeline's requirement
\* list exist, no alternate being accepted.
C11_T2wAcceptedOnlyForQsiprep ==
    /\ (QsiprepGathered /\ BrainMask \in recon_input_dir
        /\ {PreprocT1w, strip3(PreprocT1w)} \cap recon_input_dir = {}
        /\ replace_T1w_T2w(PreprocT1w) \in recon_input_dir)
            => status["has_qsiprep_t1w"]
    /\ UkbGathered =>
            (status["has_qsiprep_t1w"] <=> Range(UKB_REQUIREMENTS) \subseteq recon_input_dir)
    /\ HcpGathered =>
            (status["has_qsiprep_t1w"] <=> Range(HCP_REQUIREMENTS) \subseteq recon_input_dir)

\* C11 witness: a QSIPrep subject with a brain mask and a T2w image only was found
\* to have a usable anatomical image.
C11_Witness ==
    /\ QsiprepGathered /\ hpc = "check_transform"
    /\ recon_input_dir = {BrainMask, replace_T1w_T2w(PreprocT1w)}
    /\ status["has_qsiprep_t1w"] /\ missing_anats = << >>

\* C12: in init_highres_recon_anatomical_wf, once the status is gathered with
\* has_qsiprep_t1w_transforms = false and needs_t1w_transform is true, the call
\* has raised: the FreeSurfer lookup was not made, no connection was made and
\* nothing is returned.
C12_HighresMissingTransformRaises ==
    (hpc \in {"find_fs", "connect_ingress", "make_5tt", "done"} /\ status # NoStatus
     /\ needs_t1w_transform /\ ~status["has_qsiprep_t1w_transforms"])
        => /\ hpc = "done" /\ hresult = "raised" /\ herror = "Cannot compute to-template"
           /\ subject_freesurfer_path = "unset"
           /\ hedges = {}

\* C12 witness: a QSIPrep subject with a T1w image, a FreeSurfer directory and no
\* transform; the call that needs the transform has raised.
C12_Witness ==
    /\ hpc = "done" /\ hresult = "raised" /\ herror = "Cannot compute to-template"
    /\ pipeline_source = "qsiprep" /\ needs_t1w_transform
    /\ status["has_qsiprep_t1w"] /\ freesurfer_input.found

\* the keys of the status record the resolver makes
ResolverStatusKeys == DOMAIN gather_qsiprep_anatomical_data({}, SubjectId).status

\* C13: the status record init_dwi_recon_anatomical_workflow returns has the keys
\* of the resolver's status record, each mapped to a boolean.
C13_ReturnedStatusHasResolverKeys ==
    DwiReturned =>
        /\ DOMAIN returned_status = ResolverStatusKeys
        /\ \A k \in DOMAIN returned_status : returned_status[k] \in BOOLEAN

\* the fields the FreeSurfer-registration branch claims
FreesurferClaimed ==
    FS_FILES_TO_REGISTER
    \cup {"t1_preproc", "t1_brain_mask", "fs_to_qsiprep_transform_mrtrix",
          "fs_to_qsiprep_transform_itk"}

\* the registration of the FreeSurfer brain to the DWI reference
FreesurferRegistration ==
    {E("inputnode", "dwi_ref", "register_fs_to_qsiprep_wf", "inputnode.qsiprep_reference_image"),
     E("fs_source", "brain", "register_fs_to_qsiprep_wf", "inputnode.brain"),
     E("register_fs_to_qsiprep_wf", "outputnode.brain", "buffernode", "t1_preproc"),
     E("register_fs_to_qsiprep_wf", "outputnode.aseg", "buffernode", "t1_brain_mask")}

\* the condition of the first branch, on the arguments as passed
MaskOnlyTaken == ~(has_qsiprep_t1w_arg \/ has_freesurfer) \/ prefer_dwi_mask

\* C14: when has_freesurfer is true, has_qsiprep_t1w is passed false and
\* prefer_dwi_mask is false, a returned graph holds the FreeSurfer registration,
\* the fields of that branch are computed and not input-sourced, and the returned
\* status has has_qsiprep_t1w = true.
C14_FreesurferOnlyPath ==
    (DwiReturned /\ has_freesurfer /\ ~has_qsiprep_t1w_arg /\ ~prefer_dwi_mask)
        => /\ {"fs_source", "register_fs_to_qsiprep_wf"} \subseteq nodes
           /\ FreesurferRegistration \subseteq edges
           /\ FreesurferClaimed \subseteq connect_from_buffernode
           /\ FreesurferClaimed \cap connect_from_inputnode = {}
           /\ returned_status["has_qsiprep_t1w"]

\* C14 witness: a graph was returned on the FreeSurfer-only path.
C14_Witness ==
    /\ DwiReturned /\ has_freesurfer /\ ~has_qsiprep_t1w_arg /\ ~prefer_dwi_mask
    /\ "register_fs_to_qsiprep_wf" \in nodes

AfterTransform5tt == pc \in {"check_transforms", "resample_mask", "warp_rois", "finalize", "done"}

\* C15: off the mask-only path, with the 5tt segmentation asked for and neither
\* has_qsiprep_5tt_hsvs nor has_freesurfer_5tt_hsvs true, the construction has
\* raised the internal-consistency error at the 5tt step and returns nothing.
C15_Missing5ttIsFatal ==
    (AfterTransform5tt /\ ~MaskOnlyTaken /\ FiveTT \in extras_to_make
     /\ ~has_qsiprep_5tt_hsvs /\ ~has_freesurfer_5tt_hsvs)
        => /\ pc = "done" /\ result = "raised"
           /\ error = "The 5tt image in fsnative should have been created by now"
           /\ returned_status = NoStatus

\* C15 witness: the 5tt step has raised for a subject with a T1w image.
C15_Witness ==
    /\ DwiRaised /\ error = "The 5tt image in fsnative should have been created by now"
    /\ has_qsiprep_t1w_arg /\ ~prefer_dwi_mask /\ FiveTT \in extras_to_make

\* C16: off the mask-only path, with the 5tt segmentation asked for,
\* has_qsiprep_5tt_hsvs false, has_freesurfer_5tt_hsvs true and the template
\* requirement met, a graph is returned; it holds apply_header_to_5tt_hsvs, and
\* qsiprep_5tt_hsvs is computed and reaches outputnode from buffernode only.
C16_5ttTransformedFromFsnative ==
    (pc = "done" /\ ~MaskOnlyTaken /\ FiveTT \in extras_to_make
     /\ ~has_qsiprep_5tt_hsvs /\ has_freesurfer_5tt_hsvs
     /\ ~(needs_t1w_transform /\ ~has_qsiprep_t1w_transforms))
        => /\ result = "returned"
           /\ "apply_header_to_5tt_hsvs" \in nodes
           /\ {E("inputnode", "fs_5tt_hsvs", "apply_header_to_5tt_hsvs", "in_image"),
               E("apply_header_to_5tt_hsvs", "out_image", "buffernode", "qsiprep_5tt_hsvs")}
                  \subseteq edges
           /\ "qsiprep_5tt_hsvs" \in connect_from_buffernode \ connect_from_inputnode
           /\ {e \in edges : e.dst = "outputnode" /\ e.dstfield = "qsiprep_5tt_hsvs"}
                  = {E("buffernode", "qsiprep_5tt_hsvs", "outputnode", "qsiprep_5tt_hsvs")}

\* C16 witness: a graph with the 5tt transform was returned.
C16_Witness ==
    /\ DwiReturned /\ "apply_header_to_5tt_hsvs" \in nodes
    /\ FiveTT \in extras_to_make /\ ~has_qsiprep_5tt_hsvs /\ has_freesurfer_5tt_hsvs

\* C17: when has_qsiprep_t1w is true and prefer_dwi_mask is false, a returned
\* graph holds resample_mask, built nearest-neighbour with the identity transform
\* and feeding dwi_mask, and holds neither extract_b0s nor mask_b0s.
C17_T1wMaskResampled ==
    (DwiReturned /\ has_qsiprep_t1w_arg /\ ~prefer_dwi_mask)
        => /\ "resample_mask" \in nodes
           /\ {In("resample_mask", "interpolation", "NearestNeighbor"),
               In("resample_mask", "transforms", "identity")} \subseteq node_inputs
           /\ \A i \in node_inputs :
                 (i.node = "resample_mask" /\ i.input = "interpolation")
                     => i.value = "NearestNeighbor"
           /\ {E("resample_mask", "output_image", "buffernode", "dwi_mask"),
               E("buffernode", "dwi_mask", "outputnode", "dwi_mask")} \subseteq edges
           /\ {"extract_b0s", "mask_b0s"} \cap (nodes \cup list_node_names(edges)) = {}

\* C17 witness: a graph was returned for a subject with a T1w image and no
\* FreeSurfer data, the DWI mask not being preferred.
C17_Witness ==
    /\ DwiReturned /\ has_qsiprep_t1w_arg /\ ~has_freesurfer /\ ~prefer_dwi_mask
    /\ "resample_mask" \in nodes

\* the nodes of the graph made for atlases
AtlasNodes == {n \in nodes \cup list_node_names(edges) : startswith_ds_atlas(n)}

\* C18: in a graph returned off the mask-only path: with transforms, odf_rois is
\* there and each atlas of atlas_names has exactly its four sinks, each fed by
\* get_atlases and given dwi_file as source_file; without transforms there is no
\* odf_rois, no get_atlases and no atlas sink.
C18_RoisAndAtlasSinks ==
    (DwiReturned /\ ~MaskOnlyTaken) =>
        IF has_qsiprep_t1w_transforms
        THEN /\ "odf_rois" \in nodes
             /\ AtlasNodes = UNION {AtlasSinks(a) : a \in atlas_names}
             /\ Cardinality(AtlasNodes) = 4 * Cardinality(atlas_names)
             /\ \A n \in AtlasNodes :
                   /\ E("inputnode", "dwi_file", n, "source_file") \in edges
                   /\ E("get_atlases", "atlas_configs", n, "in_file") \in edges
        ELSE /\ {"odf_rois", "get_atlases"} \cap (nodes \cup list_node_names(edges)) = {}
             /\ AtlasNodes = {}

\* C18 witness: a graph with transforms and every atlas of the library in use.
C18_Witness ==
    /\ DwiReturned /\ ~MaskOnlyTaken /\ has_qsiprep_t1w_transforms
    /\ Cardinality(atlas_names) = MaxAtlases
    /\ "get_atlases" \in nodes

\* C19: in every returned graph each field that no computed path has claimed is
\* connected from inputnode to the same field of outputnode and has no other
\* producer.
C19_UnclaimedFieldsPassThrough ==
    DwiReturned =>
        \A f \in recon_workflow_input_fields \ connect_from_buffernode :
            {e \in edges : e.dst = "outputnode" /\ e.dstfield = f}
                = {E("inputnode", f, "outputnode", f)}

\* C19 witness: a mask-only graph and its pass-through of t1_preproc.
C19_Witness ==
    /\ DwiReturned /\ "mask_b0s" \in nodes
    /\ E("inputnode", "t1_preproc", "outputnode", "t1_preproc") \in edges

\* C20: every field starts input-sourced; a claim moves its fields to the
\* computed set; a computed field never becomes input-sourced again; claiming
\* only fields already claimed changes neither set.
C20_ClaimMovesOnceForGood ==
    /\ (connect_from_inputnode = recon_workflow_input_fields /\ connect_from_buffernode = {})
    /\ [][/\ \A f \in connect_from_buffernode :
                f \in connect_from_buffernode' /\ f \notin connect_from_inputnode'
          /\ \A f \in claimed' :
                f \in connect_from_buffernode' /\ f \notin connect_from_inputnode'
          /\ claimed' \subseteq connect_from_buffernode
                => /\ connect_from_inputnode' = connect_from_inputnode
                   /\ connect_from_buffernode' = connect_from_buffernode]_vars

\* C20 witness: several claims were made, the latest of more than one field.
C20_Witness ==
    /\ pc = "router" /\ Cardinality(connect_from_buffernode) >= 4
    /\ Cardinality(claimed) = MaxClaim
    /\ connect_from_inputnode = recon_workflow_input_fields \ connect_from_buffernode

\* C21: for ukb and hcpya the resolver's status has has_qsiprep_t1w_transforms =
\* false whatever the input directory holds, every required file included.
C21_UkbHcpNeverHaveTransforms ==
    (UkbGathered \/ HcpGathered) => ~status["has_qsiprep_t1w_transforms"]

\* C21 witness: a UKB subject with every required anatomical file was gathered.
C21_Witness ==
    /\ UkbGathered /\ Range(UKB_REQUIREMENTS) \subseteq recon_input_dir
    /\ status["has_qsiprep_t1w"] /\ ~status["has_qsiprep_t1w_transforms"]

\* the nodes that write a field of buffernode
BufferProducers(f) == {e.src : e \in {x \in edges : x.dst = "buffernode" /\ x.dstfield = f}}

\* C22: in a graph returned from the full path every field of the computed set
\* has a producer connected into buffernode.
C22_EveryComputedFieldHasProducer ==
    (DwiReturned /\ ~MaskOnlyTaken) =>
        \A f \in connect_from_buffernode : BufferProducers(f) # {}

\* the nodes that feed outputnode.dwi_mask, through buffernode or directly
DwiMaskProducers ==
    LET direct == {e.src : e \in {x \in edges : x.dst = "outputnode" /\ x.dstfield = "dwi_mask"}}
    IN  (direct \ {"buffernode"})
        \cup (IF "buffernode" \in direct THEN BufferProducers("dwi_mask") ELSE {})

\* C23: in every returned graph dwi_mask has exactly one producer: mask_b0s on
\* the mask-only path, resample_mask on every other path.
C23_DwiMaskHasOneProducer ==
    DwiReturned =>
        /\ DwiMaskProducers = (IF MaskOnlyTaken THEN {"mask_b0s"} ELSE {"resample_mask"})
        /\ ~({"mask_b0s", "resample_mask"} \subseteq nodes \cup list_node_names(edges))

\* C23 witness: a graph returned on the FreeSurfer-only path, its mask resampled.
C23_Witness ==
    /\ DwiReturned /\ has_freesurfer /\ ~has_qsiprep_t1w_arg /\ ~prefer_dwi_mask
    /\ DwiMaskProducers = {"resample_mask"}

\* C24: init_dwi_recon_anatomical_workflow called with the status a successful
\* init_highres_recon_anatomical_wf returned, the same needs_t1w_transform and
\* the same extras_to_make, never raises.
C24_ChainedCallNeverRaises ==
    chained => (result # "raised" /\ error = "")

\* C24 witness: a chained call returned a full-path graph with the 5tt image
\* asked for and the template transform needed.
C24_Witness ==
    /\ chained /\ DwiReturned /\ ~MaskOnlyTaken
    /\ FiveTT \in extras_to_make /\ needs_t1w_transform

HighresReturned == hpc = "done" /\ hresult = "returned"

\* C25: in every status init_highres_recon_anatomical_wf returns:
\* has_qsiprep_5tt_hsvs implies has_freesurfer_5tt_hsvs, has_qsiprep_t1w and
\* has_freesurfer; has_freesurfer_5tt_hsvs implies has_freesurfer and that
\* mrtrix_5tt_hsvs was requested; has_freesurfer is true exactly when a
\* FreeSurfer directory was found.
C25_ReturnedStatusIsConsistent ==
    HighresReturned =>
        /\ status["has_qsiprep_5tt_hsvs"] =>
              /\ status["has_freesurfer_5tt_hsvs"]
              /\ status["has_qsiprep_t1w"]
              /\ status["has_freesurfer"]
        /\ status["has_freesurfer_5tt_hsvs"] =>
              (status["has_freesurfer"] /\ FiveTT \in extras_to_make)
        /\ status["has_freesurfer"] <=> freesurfer_input.found

\* C25 witness: the 5tt image was made from FreeSurfer alone, no T1w being there.
C25_Witness ==
    /\ HighresReturned /\ status["has_freesurfer_5tt_hsvs"]
    /\ ~status["has_qsiprep_5tt_hsvs"] /\ ~status["has_qsiprep_t1w"]

\* the ingress node each gather function makes
IngressNodeOf(source) ==
    CASE source = "qsiprep" -> gather_qsiprep_anatomical_data({}, SubjectId).node
      [] source = "ukb" -> gather_ukb_anatomical_data({}, SubjectId).node
      [] source = "hcpya" -> gather_hcp_anatomical_data({}, SubjectId).node
      [] OTHER -> ""

\* C26: with a pipeline source other than qsiprep, ukb or hcpya the resolver has
\* raised with no gather function called, no FreeSurfer lookup and no status;
\* with a supported source the ingress node is the matching gather function's.
C26_PipelineSourceDispatch ==
    (hpc \notin {"idle", "gather", "passed"}) =>
        IF pipeline_source \in {"qsiprep", "ukb", "hcpya"}
        THEN /\ anat_ingress_node = IngressNodeOf(pipeline_source)
             /\ herror # "Unknown pipeline source"
        ELSE /\ hpc = "done" /\ hresult = "raised" /\ herror = "Unknown pipeline source"
             /\ status = NoStatus /\ anat_ingress_node = "" /\ missing_anats = << >>
             /\ subject_freesurfer_path = "unset"
             /\ hnodes = {"outputnode"} /\ hedges = {}

\* C26 witness: the call with an unknown pipeline source has raised.
C26_Witness ==
    /\ hpc = "done" /\ herror = "Unknown pipeline source"
    /\ pipeline_source \notin {"qsiprep", "ukb", "hcpya"}

DrbuddiNodes == {"gather_drbuddi_inputs", "drbuddi", "aggregate_drbuddi"}

\* C27: init_drbuddi_wf raises for a fieldmap suffix that is not epi, rpe_series
\* or dwi before any DRBUDDI node is made; for an accepted suffix the images
\* given to gather_drbuddi_inputs are the entry of fieldmap_info under that suffix.
C27_DrbuddiSuffixGuard ==
    /\ (bpc \notin {"idle", "check_suffix"} /\ ~(fieldmap_info.suffix \in {"epi", "rpe_series", "dwi"}))
          => /\ bpc = "done" /\ bresult = "raised"
             /\ berror = "DRBUDDI workflow requires epi, rpe_series or dwi fieldmaps"
             /\ bnodes \cap (DrbuddiNodes \cup {"drbuddi_summary"}) = {}
             /\ bedges = {}
    /\ "gather_drbuddi_inputs" \in bnodes
          => /\ fieldmap_info.suffix \in DOMAIN fieldmap_info.images
             /\ epi_fmaps = fieldmap_info.images[fieldmap_info.suffix]
             /\ In("gather_drbuddi_inputs", "fieldmap_type", fieldmap_info.suffix) \in binputs

\* C27 witness: the workflow was returned for rpe_series, fieldmap_info holding
\* another list under epi.
C27_Witness ==
    /\ bpc = "done" /\ bresult = "returned" /\ fieldmap_info.suffix = "rpe_series"
    /\ DrbuddiNodes \subseteq bnodes
    /\ "epi" \in DOMAIN fieldmap_info.images
    /\ fieldmap_info.images["epi"] # fieldmap_info.images["rpe_series"]
    /\ epi_fmaps = fieldmap_info.images["rpe_series"]

\* everything under output_dir, relative to it
AllFound == {relpath(f) : f \in output_dir}
\* the same without the paths containing "figures" or having a "log" component
KeptFound == {f \in AllFound : ~contains_figures(f) /\ "log" \notin split_sep(f)}
Expected == {rstrip(l) : l \in Range(output_list_file)}
Optional ==
    IF optional_output_list_file.given
    THEN {rstrip(l) : l \in Range(optional_output_list_file.lines)}
    ELSE {}
Unexpected == \E f \in KeptFound : f \notin Expected /\ f \notin Optional
CheckDone == gpc = "done"

\* C28: check_generated_files raises exactly when some expected file is not
\* among the files found under output_dir, or some found file, figures and logs
\* dropped, is neither expected nor optional.
C28_RaisesIffMissingOrUnexpected ==
    CheckDone =>
        (gresult = "raised" <=> ((\E e \in Expected : e \notin AllFound) \/ Unexpected))

\* C28 amended: the expected files too are looked up among the found files that
\* are left after figures and logs are dropped; an absent optional file never
\* raises.
C28_RaisesIffMissingFromKeptOrUnexpected ==
    CheckDone =>
        /\ gresult = "raised" <=> ((\E e \in Expected : e \notin KeptFound) \/ Unexpected)
        /\ (Expected \subseteq KeptFound /\ KeptFound \subseteq Expected) => gresult = "returned"

\* C28 witness: an optional file is absent, every expected file is there and
\* nothing else is; the call returned.
C28_Witness ==
    /\ CheckDone /\ gresult = "returned"
    /\ Optional # {} /\ Optional \cap AllFound = {}
    /\ Expected # {} /\ Expected = KeptFound
    /\ Len(output_list_file) = MaxListed

====
